---- MODULE Spec2Model ----
(***************************************************************************)
(* Live attendance server: the in-memory attendance session                *)
(* (routes/attendance.ts), the WebSocket client registry and the event     *)
(* handlers (websocket.ts), with the database reduced to the three tables  *)
(* the handlers touch (classes, class_enrollments, attendance).            *)
(*                                                                         *)
(* Every handler runs synchronously up to its first await on the database, *)
(* so each action below is one such synchronous run.  handleDone has two   *)
(* awaits (roster read, batch insert) and is therefore split in three      *)
(* steps; an invocation suspended on an await is an entry of `tasks`.      *)
(* The session is a JavaScript object: `heap` maps object identities to    *)
(* their fields, `activeSession` is the module variable that refers to one *)
(* of them (or null), and a suspended handleDone keeps its own reference.  *)
(***************************************************************************)
EXTENDS Integers, Sequences, FiniteSets, TLC

\* ----------------------------------------------------------------- bounds
\* successful POST /attendance/start requests, handleDone invocations that get
\* past their two checks, and the two together, in one run
MaxSessions == 2
MaxDone == 2
MaxOps == 3

\* ------------------------------------------------------- database content
Students == {"s1", "s2"}
Classes == {"c1", "c2"}
ClassTeacher == [c \in Classes |-> IF c = "c1" THEN "t1" ELSE "t2"]

\* a property that is missing from a JSON object reads as undefined
Undefined == "undefined"
NULL == 0
NoConn == "-"
EmptyMap == [s \in {} |-> "absent"]

\* ----------------------------------------------------------- connections
Conn == {"w1", "w2", "w3"}
QueryToken == [c \in Conn |->
    CASE c = "w1" -> {"jwt_t1"}
      [] c = "w2" -> {"jwt_s1"}
      [] OTHER    -> {"missing", "forged"}]
NoUser == [userId |-> "-", role |-> "-"]
jwtVerify(token) ==
    CASE token = "jwt_t1" -> [userId |-> "t1", role |-> "teacher"]
      [] token = "jwt_t2" -> [userId |-> "t2", role |-> "teacher"]
      [] token = "jwt_s1" -> [userId |-> "s1", role |-> "student"]
      [] OTHER            -> NoUser
CONNECTING == 0
OPEN == 1
CLOSED == 3

\* --------------------------------------------------------------- messages
\* Inbound frames.  fmt: "garbage" is not JSON, "null" is the JSON text
\* null, "object" is a JSON object with the given event; hasData tells
\* whether the object has a data member.
Frame(fmt, ev, hd, sid, st) ==
    [fmt |-> fmt, event |-> ev, hasData |-> hd, studentId |-> sid, status |-> st]
MarkFrames ==
    { Frame("object", "ATTENDANCE_MARKED", TRUE, "s1", "present"),
      Frame("object", "ATTENDANCE_MARKED", TRUE, "s1", Undefined),
      Frame("object", "ATTENDANCE_MARKED", TRUE, "s2", "absent") }
Frames ==
    MarkFrames \cup
    { Frame("garbage", "-", FALSE, "-", "-"),
      Frame("null", "-", FALSE, "-", "-"),
      Frame("object", "ATTENDANCE_MARKED", FALSE, "-", "-"),
      Frame("object", "TODAY_SUMMARY", FALSE, "-", "-"),
      Frame("object", "MY_ATTENDANCE", FALSE, "-", "-"),
      Frame("object", "DONE", FALSE, "-", "-"),
      Frame("object", "PING", FALSE, "-", "-") }

\* Outbound envelopes, all of one shape; unused members are "-" or -1.
Envelope(ev, m, sid, st, p, a, t) ==
    [event |-> ev, message |-> m, studentId |-> sid, status |-> st,
     present |-> p, absent |-> a, total |-> t]
ErrorEnvelope(m) == Envelope("ERROR", m, "-", "-", -1, -1, -1)
Forbidden(role) ==
    ErrorEnvelope(IF role = "teacher" THEN "Forbidden, teacher event only"
                                     ELSE "Forbidden, student event only")
NoActive == ErrorEnvelope("No active attendance session")
InvalidFormat == ErrorEnvelope("Invalid message format")
UnknownEvent == ErrorEnvelope("Unknown event")
Unauthorized == ErrorEnvelope("Unauthorized or invalid token")
MarkedEnvelope(sid, st) == Envelope("ATTENDANCE_MARKED", "-", sid, st, -1, -1, -1)
SummaryEnvelope(p, a, t) == Envelope("TODAY_SUMMARY", "-", "-", "-", p, a, t)
MyAttendanceEnvelope(st) == Envelope("MY_ATTENDANCE", "-", "-", st, -1, -1, -1)
DoneEnvelope(p, a, t) == Envelope("DONE", "Attendance persisted", "-", "-", p, a, t)

\* ------------------------------------------------------------------ state
VARIABLES
    activeSession,    \* NULL or the identity of the session object
    heap,             \* identity -> [classId, startedAt, attendance]
    nStart,           \* session objects created so far (also the clock)
    clients,          \* the Map ws -> user, as a function on the registered ws
    user,             \* the `user` each connection's handlers closed over
    readyState,       \* ws.readyState of every connection
    tasks,            \* handleDone invocations, by number; history, since
                      \* the invocation read its session: `marked`, a mark
                      \* was applied to it; `persisted`, another invocation
                      \* inserted it
    nDone,            \* handleDone invocations that passed both checks
    enrollments,      \* class_enrollments: classId -> set of studentId
    inserted,         \* the records of the insert that the last step saw succeed
    outbox,           \* frames delivered to each connection by the last step
    echoed,           \* history: per session object, the last echoed mark
    last              \* history: what the last step handled

vars == <<activeSession, heap, nStart, clients, user, readyState,
          tasks, nDone, enrollments, inserted, outbox, echoed, last>>

TaskIds == 1..MaxDone
IdleTask ==
    [pc |-> "idle", ws |-> NoConn, sess |-> NULL, marked |-> FALSE,
     persisted |-> FALSE,
     finalAttendance |-> EmptyMap]
NoOutbox == [c \in Conn |-> <<>>]
Last(op, ws, event, task, code) ==
    [op |-> op, ws |-> ws, event |-> event, task |-> task, code |-> code]

\* ----------------------------------------------------------------- helpers
\* objects that are still referenced: by the module variable or by a
\* suspended handleDone; the others are garbage
Live(as, ts) == ({as} \cup {ts[k].sess : k \in TaskIds}) \ {NULL}
Gc(h, as, ts) == [i \in (DOMAIN h) \cap Live(as, ts) |-> h[i]]

getActiveSession == activeSession

\* obj[key] = value on a JavaScript object
Put(obj, key, value) ==
    [k \in (DOMAIN obj) \cup {key} |-> IF k = key THEN value ELSE obj[k]]

\* ws.send(...): a frame reaches the peer only through an open socket
Send(ob, ws, env) ==
    IF readyState[ws] = OPEN THEN [ob EXCEPT ![ws] = Append(@, env)] ELSE ob

\* mutant: only the teachers among the clients get the message
broadcast_teachersOnly(message) ==
    [ws \in Conn |->
        IF ws \in DOMAIN clients /\ readyState[ws] = OPEN
           /\ clients[ws].role = "teacher"
        THEN <<message>> ELSE <<>>]

broadcast(message) ==
    [ws \in Conn |->
        IF ws \in DOMAIN clients /\ readyState[ws] = OPEN
        THEN <<message>> ELSE <<>>]

CountOf(att, st) == Cardinality({s \in DOMAIN att : att[s] = st})
Total(att) == Cardinality(DOMAIN att)

\* mutant: the loop without its `in` test, every enrolled student is absent
ApplyDefaults_overwrite(finalAttendance, todo) ==
    [sid \in (DOMAIN finalAttendance) \cup todo |->
        IF sid \in todo THEN "absent" ELSE finalAttendance[sid]]

\* the loop of handleDone that defaults the enrolled students
RECURSIVE ApplyDefaults(_, _)
ApplyDefaults(finalAttendance, todo) ==
    IF todo = {} THEN finalAttendance
    ELSE LET sid == CHOOSE s \in todo : TRUE
         IN  ApplyDefaults(
                 IF sid \notin DOMAIN finalAttendance
                 THEN Put(finalAttendance, sid, "absent")
                 ELSE finalAttendance,
                 todo \ {sid})

\* mutant: only the students who are present get a record
Records_presentOnly(classId, finalAttendance) ==
    {[classId |-> classId, studentId |-> sid, status |-> finalAttendance[sid]] :
        sid \in {x \in DOMAIN finalAttendance : finalAttendance[x] = "present"}}

Records(classId, finalAttendance) ==
    {[classId |-> classId, studentId |-> sid, status |-> finalAttendance[sid]] :
        sid \in DOMAIN finalAttendance}


\* the class_enrollments the run starts with
Rosters == {[c \in Classes |-> IF c = "c1" THEN {"s1"} ELSE Students]}

\* --------------------------------------------------------------- initial
Init ==
    /\ activeSession = NULL
    /\ heap = [i \in {} |-> 0]
    /\ nStart = 0
    /\ clients = [c \in {} |-> NoUser]
    /\ user = [c \in Conn |-> NoUser]
    /\ readyState = [c \in Conn |-> CONNECTING]
    /\ tasks = [k \in TaskIds |-> IdleTask]
    /\ nDone = 0
    /\ enrollments \in Rosters
    /\ inserted = {}
    /\ outbox = NoOutbox
    /\ echoed = [i \in {} |-> EmptyMap]
    /\ last = Last("init", NoConn, "-", 0, 0)

\* ------------------------------------------------------ websocket handlers
ConnUnchanged == UNCHANGED <<clients, user, readyState>>

\* a handler that only answers its sender
Reply(ws, env) ==
    /\ outbox' = Send(NoOutbox, ws, env)
    /\ inserted' = {}
    /\ UNCHANGED <<activeSession, heap, tasks, nDone>>

\* mutant: a student who has a mark keeps it
handleAttendanceMarked_keepFirst(frame, ws, u) ==
    IF u.role # "teacher" THEN Reply(ws, Forbidden("teacher"))
    ELSE IF getActiveSession = NULL THEN Reply(ws, NoActive)
    ELSE IF ~frame.hasData THEN Reply(ws, InvalidFormat)
    ELSE LET a == getActiveSession
             att == heap[a].attendance
         IN  /\ heap' = [heap EXCEPT ![a].attendance =
                            IF frame.studentId \in DOMAIN att THEN att
                            ELSE Put(att, frame.studentId, frame.status)]
             /\ outbox' = broadcast(MarkedEnvelope(frame.studentId, frame.status))
             /\ tasks' = [k \in TaskIds |->
                            IF tasks[k].sess = a
                            THEN [tasks[k] EXCEPT !.marked = TRUE] ELSE tasks[k]]
             /\ inserted' = {}
             /\ UNCHANGED <<activeSession, nDone>>

\* mutant: the mark is broadcast and not written
handleAttendanceMarked_echoOnly(frame, ws, u) ==
    IF u.role # "teacher" THEN Reply(ws, Forbidden("teacher"))
    ELSE IF getActiveSession = NULL THEN Reply(ws, NoActive)
    ELSE IF ~frame.hasData THEN Reply(ws, InvalidFormat)
    ELSE /\ outbox' = broadcast(MarkedEnvelope(frame.studentId, frame.status))
         /\ inserted' = {}
         /\ UNCHANGED <<activeSession, heap, tasks, nDone>>

handleAttendanceMarked(frame, ws, u) ==
    IF u.role # "teacher" THEN Reply(ws, Forbidden("teacher"))
    ELSE IF getActiveSession = NULL THEN Reply(ws, NoActive)
    ELSE IF ~frame.hasData THEN Reply(ws, InvalidFormat)
    ELSE LET a == getActiveSession
         IN  /\ heap' = [heap EXCEPT ![a].attendance =
                            Put(@, frame.studentId, frame.status)]
             /\ outbox' = broadcast(MarkedEnvelope(frame.studentId, frame.status))
             /\ tasks' = [k \in TaskIds |->
                            IF tasks[k].sess = a
                            THEN [tasks[k] EXCEPT !.marked = TRUE] ELSE tasks[k]]
             /\ inserted' = {}
             /\ UNCHANGED <<activeSession, nDone>>

\* mutant: the summary counts the enrolled students without a mark as absent
handleTodaySummary_overRoster(ws, u) ==
    IF u.role # "teacher" THEN Reply(ws, Forbidden("teacher"))
    ELSE IF getActiveSession = NULL THEN Reply(ws, NoActive)
    ELSE LET session == heap[getActiveSession]
             att == ApplyDefaults(session.attendance, enrollments[session.classId])
         IN  /\ outbox' = broadcast(SummaryEnvelope(CountOf(att, "present"),
                                                    CountOf(att, "absent"),
                                                    Total(att)))
             /\ inserted' = {}
             /\ UNCHANGED <<activeSession, heap, tasks, nDone>>

\* mutant: handleTodaySummary without its session test, counting no marks
handleTodaySummary_noSessionCheck(ws, u) ==
    IF u.role # "teacher" THEN Reply(ws, Forbidden("teacher"))
    ELSE LET att == IF getActiveSession = NULL THEN EmptyMap
                    ELSE heap[getActiveSession].attendance
         IN  /\ outbox' = broadcast(SummaryEnvelope(CountOf(att, "present"),
                                                    CountOf(att, "absent"),
                                                    Total(att)))
             /\ inserted' = {}
             /\ UNCHANGED <<activeSession, heap, tasks, nDone>>

handleTodaySummary(ws, u) ==
    IF u.role # "teacher" THEN Reply(ws, Forbidden("teacher"))
    ELSE IF getActiveSession = NULL THEN Reply(ws, NoActive)
    ELSE LET att == heap[getActiveSession].attendance
         IN  /\ outbox' = broadcast(SummaryEnvelope(CountOf(att, "present"),
                                                    CountOf(att, "absent"),
                                                    Total(att)))
             /\ inserted' = {}
             /\ UNCHANGED <<activeSession, heap, tasks, nDone>>

\* mutant: the answer goes to every connection of the student who asked
handleMyAttendance_toTheStudent(ws, u) ==
    IF u.role # "student" THEN Reply(ws, Forbidden("student"))
    ELSE IF getActiveSession = NULL THEN Reply(ws, NoActive)
    ELSE LET att == heap[getActiveSession].attendance
             status == IF u.userId \in DOMAIN att /\ att[u.userId] # Undefined
                       THEN att[u.userId] ELSE "not yet updated"
         IN  /\ outbox' = [c \in Conn |->
                    IF c \in DOMAIN clients /\ readyState[c] = OPEN
                       /\ clients[c].userId = u.userId
                    THEN <<MyAttendanceEnvelope(status)>> ELSE <<>>]
             /\ inserted' = {}
             /\ UNCHANGED <<activeSession, heap, tasks, nDone>>

\* mutant: handleMyAttendance testing the session before the role
handleMyAttendance_stateFirst(ws, u) ==
    IF getActiveSession = NULL THEN Reply(ws, NoActive)
    ELSE IF u.role # "student" THEN Reply(ws, Forbidden("student"))
    ELSE LET att == heap[getActiveSession].attendance
             status == IF u.userId \in DOMAIN att /\ att[u.userId] # Undefined
                       THEN att[u.userId] ELSE "not yet updated"
         IN  Reply(ws, MyAttendanceEnvelope(status))

\* mutant: a student without a mark who is enrolled in the class is "absent"
handleMyAttendance_rosterDefault(ws, u) ==
    IF u.role # "student" THEN Reply(ws, Forbidden("student"))
    ELSE IF getActiveSession = NULL THEN Reply(ws, NoActive)
    ELSE LET session == heap[getActiveSession]
             att == ApplyDefaults(session.attendance, enrollments[session.classId])
             status == IF u.userId \in DOMAIN att /\ att[u.userId] # Undefined
                       THEN att[u.userId] ELSE "not yet updated"
         IN  Reply(ws, MyAttendanceEnvelope(status))

handleMyAttendance(ws, u) ==
    IF u.role # "student" THEN Reply(ws, Forbidden("student"))
    ELSE IF getActiveSession = NULL THEN Reply(ws, NoActive)
    ELSE LET att == heap[getActiveSession].attendance
             status == IF u.userId \in DOMAIN att /\ att[u.userId] # Undefined
                       THEN att[u.userId] ELSE "not yet updated"
         IN  Reply(ws, MyAttendanceEnvelope(status))

\* mutant: handleDone without its role test
handleDone_noRoleCheck(ws, u) ==
    IF getActiveSession = NULL THEN Reply(ws, NoActive)
    ELSE /\ nDone < MaxDone
         /\ nDone + nStart < MaxOps
         /\ nDone' = nDone + 1
         /\ tasks' = [tasks EXCEPT ![nDone + 1] =
                [pc |-> "findMany", ws |-> ws, sess |-> getActiveSession,
                 marked |-> FALSE, persisted |-> FALSE,
                 finalAttendance |-> EmptyMap]]
         /\ outbox' = NoOutbox
         /\ inserted' = {}
         /\ UNCHANGED <<activeSession, heap>>

\* handleDone up to `await db.query.classEnrollments.findMany(...)`
handleDone(ws, u) ==
    IF u.role # "teacher" THEN Reply(ws, Forbidden("teacher"))
    ELSE IF getActiveSession = NULL THEN Reply(ws, NoActive)
    ELSE /\ nDone < MaxDone
         /\ nDone + nStart < MaxOps
         /\ nDone' = nDone + 1
         /\ tasks' = [tasks EXCEPT ![nDone + 1] =
                [pc |-> "findMany", ws |-> ws, sess |-> getActiveSession,
                 marked |-> FALSE, persisted |-> FALSE,
                 finalAttendance |-> EmptyMap]]
         /\ outbox' = NoOutbox
         /\ inserted' = {}
         /\ UNCHANGED <<activeSession, heap>>

handleMessage(frame, ws, u) ==
    CASE frame.event = "ATTENDANCE_MARKED" -> handleAttendanceMarked(frame, ws, u)
      [] frame.event = "TODAY_SUMMARY"     -> handleTodaySummary(ws, u)
      [] frame.event = "MY_ATTENDANCE"     -> handleMyAttendance(ws, u)
      [] frame.event = "DONE"              -> handleDone(ws, u)
      [] OTHER                             -> Reply(ws, UnknownEvent)

\* history: a mark-attendance with a payload, sent by a teacher while a
\* session exists, is the last mark of its student in that session
EchoedAfter(ws, frame) ==
    IF /\ frame.fmt = "object" /\ frame.event = "ATTENDANCE_MARKED" /\ frame.hasData
       /\ user[ws].role = "teacher" /\ activeSession # NULL
    THEN [i \in DOMAIN echoed |->
            IF i # activeSession THEN echoed[i]
            ELSE [sid \in (DOMAIN echoed[i]) \cup {frame.studentId} |->
                    IF sid = frame.studentId THEN frame.status ELSE echoed[i][sid]]]
    ELSE echoed

\* onMessage of a connection whose token verified
onMessage(ws, frame) ==
    /\ readyState[ws] = OPEN
    /\ user[ws] # NoUser
    /\ IF frame.fmt # "object" THEN Reply(ws, InvalidFormat)
       ELSE handleMessage(frame, ws, user[ws])
    /\ echoed' = EchoedAfter(ws, frame)
    /\ last' = Last("onMessage", ws, frame.event, 0, 0)
    /\ ConnUnchanged
    /\ UNCHANGED <<nStart, enrollments>>

\* ------------------------------------------- handleDone after its awaits
\* mutant: the defaults come from the roster of the session that is active
\* when the roster read resolves
handleDone_findMany_resolve_currentClass(k) ==
    LET t == tasks[k]
        session == heap[t.sess]
        roster == enrollments[IF activeSession # NULL
                              THEN heap[activeSession].classId
                              ELSE session.classId]
    IN  /\ t.pc = "findMany"
        /\ tasks' = [tasks EXCEPT ![k].pc = "insert",
                                  ![k].finalAttendance =
                                      ApplyDefaults(session.attendance, roster)]
        /\ outbox' = NoOutbox
        /\ inserted' = {}
        /\ last' = Last("findMany.resolve", t.ws, "DONE", k, 0)
        /\ ConnUnchanged
        /\ UNCHANGED <<activeSession, heap, echoed, nStart, nDone, enrollments>>

\* findMany resolved: lines 146-161, up to `await db.insert(...)`
handleDone_findMany_resolve(k) ==
    LET t == tasks[k]
        session == heap[t.sess]
        roster == enrollments[session.classId]
    IN  /\ t.pc = "findMany"
        /\ tasks' = [tasks EXCEPT ![k].pc = "insert",
                                  ![k].finalAttendance =
                                      ApplyDefaults(session.attendance, roster)]
        /\ outbox' = NoOutbox
        /\ inserted' = {}
        /\ last' = Last("findMany.resolve", t.ws, "DONE", k, 0)
        /\ ConnUnchanged
        /\ UNCHANGED <<activeSession, heap, echoed, nStart, nDone, enrollments>>

\* mutant: the catch reports the failure to every client
handleDone_reject_broadcast(k, op) ==
    LET t == tasks[k]
        ts == [tasks EXCEPT ![k] = IdleTask]
    IN  /\ tasks' = ts
        /\ heap' = Gc(heap, activeSession, ts)
        /\ echoed' = Gc(echoed, activeSession, ts)
        /\ outbox' = broadcast(InvalidFormat)
        /\ inserted' = {}
        /\ last' = Last(op, t.ws, "DONE", k, 0)
        /\ ConnUnchanged
        /\ UNCHANGED <<activeSession, nStart, nDone, enrollments>>

\* mutant: the session is cleared whether the awaits succeed or not
handleDone_reject_clears(k, op) ==
    LET t == tasks[k]
        ts == [tasks EXCEPT ![k] = IdleTask]
    IN  /\ tasks' = ts
        /\ activeSession' = NULL
        /\ heap' = Gc(heap, NULL, ts)
        /\ echoed' = Gc(echoed, NULL, ts)
        /\ outbox' = Send(NoOutbox, t.ws, InvalidFormat)
        /\ inserted' = {}
        /\ last' = Last(op, t.ws, "DONE", k, 0)
        /\ ConnUnchanged
        /\ UNCHANGED <<nStart, nDone, enrollments>>

\* mutant: a query that fails is issued again, the failure is not reported
handleDone_reject_retry(k, op) ==
    LET t == tasks[k]
    IN  /\ outbox' = NoOutbox
        /\ inserted' = {}
        /\ last' = Last(op, t.ws, "DONE", k, 0)
        /\ ConnUnchanged
        /\ UNCHANGED <<tasks, heap, echoed, activeSession, nStart, nDone,
                       enrollments>>

\* an await that rejects: the exception leaves handleDone and handleMessage
\* and is caught by onMessage, which answers "Invalid message format"
handleDone_reject(k, op) ==
    LET t == tasks[k]
        ts == [tasks EXCEPT ![k] = IdleTask]
    IN  /\ tasks' = ts
        /\ heap' = Gc(heap, activeSession, ts)
        /\ echoed' = Gc(echoed, activeSession, ts)
        /\ outbox' = Send(NoOutbox, t.ws, InvalidFormat)
        /\ inserted' = {}
        /\ last' = Last(op, t.ws, "DONE", k, 0)
        /\ ConnUnchanged
        /\ UNCHANGED <<activeSession, nStart, nDone, enrollments>>

handleDone_findMany_reject(k) ==
    /\ tasks[k].pc = "findMany"
    /\ handleDone_reject(k, "findMany.reject")

handleDone_insert_reject(k) ==
    /\ tasks[k].pc = "insert"
    /\ handleDone_reject(k, "insert.reject")

clearActiveSession == activeSession' = NULL

\* mutant: the insert resolved, DONE is broadcast, the session stays
handleDone_insert_resolve_keepsSession(k) ==
    LET t == tasks[k]
        session == heap[t.sess]
        ts == [tasks EXCEPT ![k] = IdleTask]
    IN  /\ t.pc = "insert"
        /\ inserted' = Records(session.classId, t.finalAttendance)
        /\ tasks' = ts
        /\ heap' = Gc(heap, activeSession, ts)
        /\ echoed' = Gc(echoed, activeSession, ts)
        /\ outbox' = broadcast(DoneEnvelope(CountOf(t.finalAttendance, "present"),
                                            CountOf(t.finalAttendance, "absent"),
                                            Total(t.finalAttendance)))
        /\ last' = Last("insert.resolve", t.ws, "DONE", k, 0)
        /\ ConnUnchanged
        /\ UNCHANGED <<activeSession, nStart, nDone, enrollments>>

\* insert resolved: lines 163-173
handleDone_insert_resolve(k) ==
    LET t == tasks[k]
        session == heap[t.sess]
        records == Records(session.classId, t.finalAttendance)
        present == CountOf(t.finalAttendance, "present")
        absent == CountOf(t.finalAttendance, "absent")
        total == Total(t.finalAttendance)
        ts == [j \in TaskIds |->
                IF j = k THEN IdleTask
                ELSE IF tasks[j].sess = t.sess
                     THEN [tasks[j] EXCEPT !.persisted = TRUE] ELSE tasks[j]]
    IN  /\ t.pc = "insert"
        /\ inserted' = records
        /\ clearActiveSession
        /\ tasks' = ts
        /\ heap' = Gc(heap, NULL, ts)
        /\ echoed' = Gc(echoed, NULL, ts)
        /\ outbox' = broadcast(DoneEnvelope(present, absent, total))
        /\ last' = Last("insert.resolve", t.ws, "DONE", k, 0)
        /\ ConnUnchanged
        /\ UNCHANGED <<nStart, nDone, enrollments>>

\* ------------------------------------------------- POST /attendance/start
\* the requests tried: the two owners, and one request per way of failing
StartRequests ==
    { <<"jwt_t1", "c1">>, <<"jwt_t2", "c2">>, <<"jwt_t1", "c2">>,
      <<"jwt_s1", "c1">>, <<"forged", "c1">>, <<"jwt_t1", "c9">>,
      <<"jwt_t1", "not-a-uuid">> }

\* mutant: the route without the test of the class's teacher
StartCode_noOwnerCheck(token, classId) ==
    LET u == jwtVerify(token)
    IN  IF u = NoUser THEN 401
        ELSE IF u.role # "teacher" THEN 403
        ELSE IF classId = "not-a-uuid" THEN 400
        ELSE IF classId \notin Classes THEN 404
        ELSE 200

StartCode(token, classId) ==
    LET u == jwtVerify(token)
    IN  IF u = NoUser THEN 401
        ELSE IF u.role # "teacher" THEN 403
        ELSE IF classId = "not-a-uuid" THEN 400
        ELSE IF classId \notin Classes THEN 404
        ELSE IF ClassTeacher[classId] # u.userId THEN 403
        ELSE 200

\* mutant: a start while a session exists rewrites that session object
attendanceStart_inPlace(token, classId) ==
    LET code == StartCode(token, classId)
        id == nStart + 1
    IN  /\ last' = Last("start", NoConn, "-", 0, code)
        /\ outbox' = NoOutbox
        /\ inserted' = {}
        /\ IF code = 200
           THEN /\ nStart < MaxSessions
                /\ nDone + nStart < MaxOps
                /\ nStart' = id
                /\ IF activeSession = NULL
                   THEN /\ activeSession' = id
                        /\ heap' = Gc(Put(heap, id, [classId |-> classId,
                                         startedAt |-> id,
                                         attendance |-> EmptyMap]), id, tasks)
                        /\ echoed' = Gc(Put(echoed, id, EmptyMap), id, tasks)
                   ELSE /\ activeSession' = activeSession
                        /\ heap' = [heap EXCEPT ![activeSession] =
                                       [classId |-> classId, startedAt |-> id,
                                        attendance |-> EmptyMap]]
                        /\ echoed' = [echoed EXCEPT ![activeSession] = EmptyMap]
           ELSE UNCHANGED <<nStart, activeSession, heap, echoed>>
        /\ ConnUnchanged
        /\ UNCHANGED <<tasks, nDone, enrollments>>

attendanceStart(token, classId) ==
    LET code == StartCode(token, classId)
        id == nStart + 1
    IN  /\ last' = Last("start", NoConn, "-", 0, code)
        /\ outbox' = NoOutbox
        /\ inserted' = {}
        /\ IF code = 200
           THEN /\ nStart < MaxSessions
                /\ nDone + nStart < MaxOps
                /\ nStart' = id
                /\ activeSession' = id
                /\ heap' = Gc(Put(heap, id, [classId |-> classId, startedAt |-> id,
                                             attendance |-> EmptyMap]), id, tasks)
                /\ echoed' = Gc(Put(echoed, id, EmptyMap), id, tasks)
           ELSE UNCHANGED <<nStart, activeSession, heap, echoed>>
        /\ ConnUnchanged
        /\ UNCHANGED <<tasks, nDone, enrollments>>

\* ------------------------------------------------- connection life cycle
SessionUnchanged ==
    /\ inserted' = {}
    /\ UNCHANGED <<activeSession, heap, echoed, nStart, tasks, nDone, enrollments>>

\* mutant: one `user` for all connections, set by the latest handshake
onOpen_sharedUser(ws, token) ==
    LET u == IF token = "missing" THEN NoUser ELSE jwtVerify(token)
    IN  /\ readyState[ws] = CONNECTING
        /\ IF u = NoUser
           THEN /\ outbox' = [NoOutbox EXCEPT ![ws] = <<Unauthorized>>]
                /\ readyState' = [readyState EXCEPT ![ws] = CLOSED]
                /\ UNCHANGED <<clients, user>>
           ELSE /\ user' = [c \in Conn |->
                             IF c = ws \/ user[c] # NoUser THEN u ELSE user[c]]
                /\ clients' = Put(clients, ws, u)
                /\ readyState' = [readyState EXCEPT ![ws] = OPEN]
                /\ outbox' = NoOutbox
        /\ last' = Last("onOpen", ws, "-", 0, 0)
        /\ SessionUnchanged

\* mutant: the socket is registered before its token is looked at
onOpen_registerFirst(ws, token) ==
    LET u == IF token = "missing" THEN NoUser ELSE jwtVerify(token)
    IN  /\ readyState[ws] = CONNECTING
        /\ clients' = Put(clients, ws, u)
        /\ IF u = NoUser
           THEN /\ outbox' = [NoOutbox EXCEPT ![ws] = <<Unauthorized>>]
                /\ readyState' = [readyState EXCEPT ![ws] = CLOSED]
                /\ UNCHANGED user
           ELSE /\ user' = [user EXCEPT ![ws] = u]
                /\ readyState' = [readyState EXCEPT ![ws] = OPEN]
                /\ outbox' = NoOutbox
        /\ last' = Last("onOpen", ws, "-", 0, 0)
        /\ SessionUnchanged

\* createWebSocketHandler picks the handlers from the token; this is onOpen.
\* A socket whose token does not verify gets the error frame and is closed
\* in the same step (ws.send, ws.close); its other handlers are empty.
onOpen(ws, token) ==
    LET u == IF token = "missing" THEN NoUser ELSE jwtVerify(token)
    IN  /\ readyState[ws] = CONNECTING
        /\ IF u = NoUser
           THEN /\ outbox' = [NoOutbox EXCEPT ![ws] = <<Unauthorized>>]
                /\ readyState' = [readyState EXCEPT ![ws] = CLOSED]
                /\ UNCHANGED <<clients, user>>
           ELSE /\ user' = [user EXCEPT ![ws] = u]
                /\ clients' = Put(clients, ws, u)
                /\ readyState' = [readyState EXCEPT ![ws] = OPEN]
                /\ outbox' = NoOutbox
        /\ last' = Last("onOpen", ws, "-", 0, 0)
        /\ SessionUnchanged

\* the peer goes away; the close event is delivered later
socketClose(ws) ==
    /\ readyState[ws] = OPEN
    /\ readyState' = [readyState EXCEPT ![ws] = CLOSED]
    /\ outbox' = NoOutbox
    /\ last' = Last("socketClose", ws, "-", 0, 0)
    /\ UNCHANGED <<clients, user>>
    /\ SessionUnchanged

\* mutant: the close of a connection abandons the finalizes it started
onClose_abortsFinalize(ws) ==
    /\ readyState[ws] = CLOSED
    /\ clients' = IF user[ws] = NoUser THEN clients
                  ELSE [c \in (DOMAIN clients) \ {ws} |-> clients[c]]
    /\ tasks' = [k \in TaskIds |-> IF tasks[k].ws = ws THEN IdleTask ELSE tasks[k]]
    /\ outbox' = NoOutbox
    /\ inserted' = {}
    /\ last' = Last("onClose", ws, "-", 0,
                     IF user[ws] # NoUser /\ ws \in DOMAIN clients THEN 1 ELSE 0)
    /\ UNCHANGED <<user, readyState>>
    /\ UNCHANGED <<activeSession, heap, echoed, nStart, nDone, enrollments>>

\* mutant: the close of one connection empties the registry
onClose_clear(ws) ==
    /\ readyState[ws] = CLOSED
    /\ clients' = IF user[ws] = NoUser THEN clients
                  ELSE [c \in {} |-> NoUser]
    /\ outbox' = NoOutbox
    /\ last' = Last("onClose", ws, "-", 0,
                     IF user[ws] # NoUser /\ ws \in DOMAIN clients THEN 1 ELSE 0)
    /\ UNCHANGED <<user, readyState>>
    /\ SessionUnchanged

\* the close event; for a connection whose token did not verify the handler
\* is empty, and clients.delete of an absent key changes nothing; the code of
\* the step is what clients.delete returned (1: the key was there)
onClose(ws) ==
    /\ readyState[ws] = CLOSED
    /\ clients' = IF user[ws] = NoUser THEN clients
                  ELSE [c \in (DOMAIN clients) \ {ws} |-> clients[c]]
    /\ outbox' = NoOutbox
    /\ last' = Last("onClose", ws, "-", 0,
                     IF user[ws] # NoUser /\ ws \in DOMAIN clients THEN 1 ELSE 0)
    /\ UNCHANGED <<user, readyState>>
    /\ SessionUnchanged

\* ------------------------------------------------------------------- next
Next ==
    \/ \E ws \in Conn : \E token \in QueryToken[ws] : onOpen(ws, token)
    \/ \E ws \in Conn : socketClose(ws)
    \/ \E ws \in Conn : onClose(ws)
    \/ \E ws \in Conn, frame \in Frames : onMessage(ws, frame)
    \/ \E k \in TaskIds : handleDone_findMany_resolve(k)
    \/ \E k \in TaskIds : handleDone_findMany_reject(k)
    \/ \E k \in TaskIds : handleDone_insert_resolve(k)
    \/ \E k \in TaskIds : handleDone_insert_reject(k)
    \/ \E req \in StartRequests : attendanceStart(req[1], req[2])

Spec == Init /\ [][Next]_vars

\* The server with a database that answers every query it is sent: a
\* handleDone suspended on an await is resumed, by the result or by the error.
StoreAnswers(k) ==
    \/ handleDone_findMany_resolve(k)
    \/ handleDone_findMany_reject(k)
    \/ handleDone_insert_resolve(k)
    \/ handleDone_insert_reject(k)
\* the runs it is put to: the teacher and the student connect, with every
\* frame but one mark-attendance per student
FairConn == {"w1", "w2"}
FairFrames ==
    Frames \ { Frame("object", "ATTENDANCE_MARKED", TRUE, "s1", Undefined),
               Frame("object", "ATTENDANCE_MARKED", TRUE, "s2", "absent") }
NextFair ==
    \/ \E ws \in FairConn : \E token \in QueryToken[ws] : onOpen(ws, token)
    \/ \E ws \in FairConn : socketClose(ws)
    \/ \E ws \in FairConn : onClose(ws)
    \/ \E ws \in FairConn, frame \in FairFrames : onMessage(ws, frame)
    \/ \E k \in TaskIds : handleDone_findMany_resolve(k)
    \/ \E k \in TaskIds : handleDone_findMany_reject(k)
    \/ \E k \in TaskIds : handleDone_insert_resolve(k)
    \/ \E k \in TaskIds : handleDone_insert_reject(k)
    \/ \E req \in StartRequests : attendanceStart(req[1], req[2])
SpecFair ==
    Init /\ [][NextFair]_vars /\ \A k \in TaskIds : WF_vars(StoreAnswers(k))

\* The same server with a third connection that presents the token of the
\* student who is already connected, in runs of at most MaxPeerOps starts and
\* finalizes.
MaxPeerOps == 2
PeerToken == [QueryToken EXCEPT !["w3"] = {"jwt_s1"}]
NextPeers ==
    \/ \E ws \in Conn : \E token \in PeerToken[ws] : onOpen(ws, token)
    \/ \E ws \in Conn : socketClose(ws)
    \/ \E ws \in Conn : onClose(ws)
    \/ \E ws \in Conn, frame \in Frames :
          onMessage(ws, frame) /\ nDone' + nStart <= MaxPeerOps
    \/ \E k \in TaskIds : handleDone_findMany_resolve(k)
    \/ \E k \in TaskIds : handleDone_findMany_reject(k)
    \/ \E k \in TaskIds : handleDone_insert_resolve(k)
    \/ \E k \in TaskIds : handleDone_insert_reject(k)
    \/ \E req \in StartRequests :
          attendanceStart(req[1], req[2]) /\ nDone + nStart' <= MaxPeerOps
SpecPeers == Init /\ [][NextPeers]_vars

\* ================================================================= claims
InFlight(k) == tasks[k].pc \in {"findMany", "insert"}
TeacherFrames ==
    MarkFrames \cup { Frame("object", "TODAY_SUMMARY", FALSE, "-", "-"),
                      Frame("object", "DONE", FALSE, "-", "-") }
OnlyTo(ob, ws, env) ==
    \A c \in Conn : ob[c] = IF c = ws THEN <<env>> ELSE <<>>
NoBroadcast(ob, ws) ==
    \A c \in Conn \ {ws} : ob[c] = <<>>
Delivered(ob) == UNION {{ob[c][i] : i \in DOMAIN ob[c]} : c \in Conn}
DoneFrames(ob) == {e \in Delivered(ob) : e.event = "DONE"}

\* C1: while a handleDone that read the active session is suspended on one of
\* its awaits, a well-formed mark-attendance, request-summary or finalize sent
\* by a teacher is answered "No active attendance session" to its sender only
\* and changes neither the session nor the pending work.
C1_SingleWriterWhileFinalizing ==
    [][\A ws \in Conn, frame \in TeacherFrames :
         ( /\ \E k \in TaskIds : InFlight(k) /\ tasks[k].sess = activeSession
           /\ readyState[ws] = OPEN /\ user[ws].role = "teacher"
           /\ last'.op = "onMessage" /\ last'.ws = ws /\ last'.event = frame.event
           /\ onMessage(ws, frame) )
         => ( /\ OnlyTo(outbox', ws, NoActive)
              /\ UNCHANGED <<activeSession, heap, tasks, nDone>> )]_vars

\* C2: when the insert of a finalize is rejected, an error goes to the
\* connection that sent the finalize and to no other, nothing is inserted,
\* and the session that this finalize read is still the active one, with its
\* classId and with no mark applied to it since the finalize read it.
C2_PersistenceFailureRestores ==
    [][\A k \in TaskIds :
         (tasks[k].pc = "insert" /\ last'.op = "insert.reject" /\ last'.task = k)
         => ( /\ NoBroadcast(outbox', tasks[k].ws)
              /\ \A i \in 1..Len(outbox'[tasks[k].ws]) :
                    outbox'[tasks[k].ws][i].event = "ERROR"
              /\ inserted' = {}
              /\ activeSession' = tasks[k].sess
              /\ heap'[tasks[k].sess] = heap[tasks[k].sess]
              /\ ~tasks[k].marked )]_vars

C4_CountsAddUp ==
    \A e \in DoneFrames(outbox) :
        /\ e.present + e.absent = e.total
        /\ e.total = Cardinality(inserted)

C6_DestroyedOnlyByItsFinalize ==
    [][ /\ (activeSession # NULL /\ activeSession' # activeSession)
           => ( /\ last'.op = "insert.resolve"
                /\ tasks[last'.task].sess = activeSession
                /\ activeSession' = NULL )
        /\ (last'.op = "insert.resolve") => activeSession' = NULL
        /\ \A ws \in Conn, frame \in MarkFrames :
             ( /\ activeSession = NULL /\ user[ws].role = "teacher"
               /\ last'.op = "onMessage" /\ last'.ws = ws
               /\ onMessage(ws, frame) )
             => OnlyTo(outbox', ws, NoActive) ]_vars

\* C7: a start request that is granted finds no session and leaves a new one
\* with its classId and no marks; a start request made while a session exists
\* is refused and leaves that session as it was.
C7_StartOnlyWhenNone ==
    [][(last'.op = "start")
       => IF activeSession = NULL
          THEN last'.code = 200
               => ( /\ activeSession' # NULL
                    /\ heap'[activeSession'].attendance = EmptyMap )
          ELSE /\ last'.code # 200
               /\ activeSession' = activeSession
               /\ heap'[activeSession] = heap[activeSession]]_vars

\* C8: no step changes the classId of a session object that exists before and
\* after it, whether it is the active session or one a suspended finalize
\* still holds.
C8_ClassIdNeverChanges ==
    [][\A i \in (DOMAIN heap) \cap (DOMAIN heap') :
          heap'[i].classId = heap[i].classId]_vars
C8_Witness ==
    /\ nStart = 2
    /\ activeSession = 2
    /\ \E k \in TaskIds : InFlight(k) /\ tasks[k].sess = 1
    /\ heap[1].classId # heap[2].classId
    /\ heap[2].attendance # EmptyMap

\* C9: the marks of every session are, student by student, the status of the
\* last mark-attendance a teacher sent for that student while that session was
\* the active one; students without such a message have no mark.
C9_LastWriteWins ==
    \A i \in DOMAIN heap : heap[i].attendance = echoed[i]
C9_Witness ==
    /\ activeSession # NULL
    /\ last.op = "onMessage" /\ last.event = "ATTENDANCE_MARKED"
    /\ heap[activeSession].attendance =
          [sid \in {"s1", "s2"} |-> IF sid = "s1" THEN "present" ELSE "absent"]
    /\ \E c \in Conn : outbox[c] = <<MarkedEnvelope("s1", "present")>>
    /\ \E k \in TaskIds : tasks[k].marked

\* C10: a mark-attendance, request-summary or finalize from a student and a
\* request-self-status from a teacher change neither the session nor the
\* pending finalizes, start no roster read, insert nothing, and are answered
\* with the "Forbidden" error of the event to the sender alone.
WrongRole(ev, role) ==
    \/ ev \in {"ATTENDANCE_MARKED", "TODAY_SUMMARY", "DONE"} /\ role = "student"
    \/ ev = "MY_ATTENDANCE" /\ role = "teacher"
C10_RoleGating ==
    [][(last'.op = "onMessage" /\ WrongRole(last'.event, user[last'.ws].role))
       => ( /\ UNCHANGED <<activeSession, heap, tasks, nDone>>
            /\ inserted' = {}
            /\ OnlyTo(outbox', last'.ws,
                      Forbidden(IF last'.event = "MY_ATTENDANCE"
                                THEN "student" ELSE "teacher")) )]_vars
C10_Witness ==
    /\ last.op = "onMessage" /\ last.event = "DONE"
    /\ user[last.ws].role = "student"
    /\ activeSession # NULL
    /\ \E k \in TaskIds : tasks[k].pc = "insert"
    /\ outbox[last.ws] = <<Forbidden("teacher")>>
    /\ \E c \in Conn \ {last.ws} : c \in DOMAIN clients /\ readyState[c] = OPEN

\* C11: with no session, a mark-attendance, request-summary or finalize from
\* a student and a request-self-status from a teacher are answered with the
\* "Forbidden" error of the event, not with "No active attendance session".
StatefulEvents == {"ATTENDANCE_MARKED", "TODAY_SUMMARY", "MY_ATTENDANCE", "DONE"}
C11_RoleBeforeState ==
    [][( /\ last'.op = "onMessage"
         /\ activeSession = NULL
         /\ WrongRole(last'.event, user[last'.ws].role) )
       => ( /\ outbox'[last'.ws] # <<NoActive>>
            /\ outbox'[last'.ws] =
                  <<Forbidden(IF last'.event = "MY_ATTENDANCE"
                              THEN "student" ELSE "teacher")>> )]_vars
C11_Witness ==
    /\ last.op = "onMessage" /\ last.event = "MY_ATTENDANCE"
    /\ user[last.ws].role = "teacher"
    /\ activeSession = NULL
    /\ outbox[last.ws] = <<Forbidden("student")>>

\* C12 as stated: with no session, each of the four stateful events is
\* answered "No active attendance session" to its sender, whatever the role
\* of the sender.
C12_NoSessionAnyRole ==
    [][( /\ last'.op = "onMessage"
         /\ activeSession = NULL
         /\ last'.event \in StatefulEvents )
       => OnlyTo(outbox', last'.ws, NoActive)]_vars
\* C12 amended: with no session, each of the four stateful events sent by a
\* connection of the role the event requires is answered "No active
\* attendance session" to its sender alone and changes nothing.
C12_NoSessionRightRole ==
    [][( /\ last'.op = "onMessage"
         /\ activeSession = NULL
         /\ last'.event \in StatefulEvents
         /\ ~WrongRole(last'.event, user[last'.ws].role) )
       => ( /\ OnlyTo(outbox', last'.ws, NoActive)
            /\ UNCHANGED <<activeSession, heap, tasks, nDone>> )]_vars
C12_Witness ==
    /\ last.op = "onMessage" /\ last.event = "TODAY_SUMMARY"
    /\ user[last.ws].role = "teacher"
    /\ nStart = 1 /\ activeSession = NULL
    /\ outbox[last.ws] = <<NoActive>>
    /\ \E c \in Conn \ {last.ws} : c \in DOMAIN clients /\ readyState[c] = OPEN

\* C13: a self-status envelope is in the inbox of a connection only in the
\* step that handled a request-self-status of that very connection, and that
\* step delivers nothing to any other connection.
C13_SelfStatusUnicast ==
    \A c \in Conn :
        (\E i \in DOMAIN outbox[c] : outbox[c][i].event = "MY_ATTENDANCE")
        => ( /\ last.op = "onMessage" /\ last.event = "MY_ATTENDANCE"
             /\ last.ws = c
             /\ Len(outbox[c]) = 1
             /\ NoBroadcast(outbox, c) )
C13_Witness ==
    /\ last.op = "onMessage" /\ last.event = "MY_ATTENDANCE" /\ last.ws = "w2"
    /\ outbox["w2"] = <<MyAttendanceEnvelope("present")>>
    /\ \A c \in Conn : c \in DOMAIN clients /\ readyState[c] = OPEN
    /\ clients["w3"] = clients["w2"]
    /\ clients["w1"].role = "teacher"

\* C14: a request-self-status of a student while a session is active is
\* answered "not yet updated" when no mark-attendance for that student was
\* applied in this session, and otherwise with the status of the last mark
\* applied for that student in this session.
C14_SelfStatusIsLastMark ==
    [][( /\ last'.op = "onMessage" /\ last'.event = "MY_ATTENDANCE"
         /\ user[last'.ws].role = "student"
         /\ activeSession # NULL )
       => LET sid == user[last'.ws].userId
              marks == echoed[activeSession]
          IN  outbox'[last'.ws] =
                <<MyAttendanceEnvelope(IF sid \in DOMAIN marks THEN marks[sid]
                                       ELSE "not yet updated")>>]_vars

\* C15: an error envelope is delivered only to the connection whose message
\* or handshake the step handled, alone in that step: no other connection
\* gets anything with it.
Errors(ob, c) == {i \in DOMAIN ob[c] : ob[c][i].event = "ERROR"}
C15_NoErrorBroadcast ==
    \A c \in Conn :
        Errors(outbox, c) # {}
        => ( /\ last.ws = c
             /\ Len(outbox[c]) = 1
             /\ NoBroadcast(outbox, c) )
C15_Witness ==
    /\ last.op = "insert.reject"
    /\ outbox[last.ws] = <<InvalidFormat>>
    /\ \E c \in Conn \ {last.ws} :
          /\ c \in DOMAIN clients /\ readyState[c] = OPEN
          /\ outbox[c] = <<>>

C17_RejectedHandshake ==
    [][ /\ (last'.op = "onOpen" /\ user'[last'.ws] = NoUser)
           => ( /\ outbox' = [NoOutbox EXCEPT ![last'.ws] = <<Unauthorized>>]
                /\ readyState'[last'.ws] = CLOSED
                /\ UNCHANGED <<clients, activeSession, heap, tasks, nDone>> )
        /\ \A c \in Conn :
             user'[c] = NoUser
             => ( /\ c \notin DOMAIN clients'
                  /\ readyState'[c] # OPEN
                  /\ outbox'[c] # <<>>
                       => ( /\ last'.op = "onOpen" /\ last'.ws = c
                            /\ readyState[c] = CONNECTING ) )
        /\ (last'.op = "onMessage") => user[last'.ws] # NoUser ]_vars
C17_Witness ==
    /\ user["w3"] = NoUser /\ readyState["w3"] = CLOSED
    /\ last.op = "onMessage" /\ last.event = "ATTENDANCE_MARKED"
    /\ outbox["w1"] = <<MarkedEnvelope("s1", "present")>>
    /\ outbox["w2"] = outbox["w1"]
    /\ outbox["w3"] = <<>>

\* the step delivers one envelope of the given event to each connection of
\* `to`, once, and nothing to any other connection
DeliversTo(ob, event, to) ==
    /\ \A c \in Conn \ to : ob[c] = <<>>
    /\ \A c \in to : Len(ob[c]) = 1 /\ ob[c][1].event = event
    /\ \A c, d \in to : ob[c] = ob[d]
BroadcastSteps(to) ==
    /\ \A ws \in Conn, frame \in TeacherFrames \ {Frame("object", "DONE", FALSE, "-", "-")} :
          ( /\ user[ws].role = "teacher" /\ activeSession # NULL
            /\ onMessage(ws, frame) )
          => DeliversTo(outbox', frame.event, to)
    /\ (last'.op = "insert.resolve") => DeliversTo(outbox', "DONE", to)
\* C18 as stated: a mark-attendance or request-summary that succeeds and a
\* finalize whose insert succeeds deliver their envelope once to every
\* connection that is a key of clients, and to no other.
C18_ToEveryRegistered ==
    [][BroadcastSteps(DOMAIN clients)]_vars
\* C18 amended: they deliver it once to every connection that is a key of
\* clients and whose socket is open, and to no other.
C18_ToEveryRegisteredOpen ==
    [][BroadcastSteps({c \in DOMAIN clients : readyState[c] = OPEN})]_vars
C18_Witness ==
    /\ last.op = "insert.resolve" /\ last.ws = "w1"
    /\ outbox["w1"] = <<DoneEnvelope(1, 0, 1)>>
    /\ outbox["w2"] = outbox["w1"]
    /\ clients["w2"].role = "student"
    /\ "w3" \notin DOMAIN clients /\ outbox["w3"] = <<>>

\* C19: a message that is not a JSON object is answered "Invalid message
\* format", an object with an unknown event "Unknown event", and a
\* mark-attendance without payload or without a status of the enum "Invalid
\* message format", each to the sender alone, whatever the role of the sender
\* and whether a session exists or not.
C19_CheckOrder ==
    [][\A ws \in Conn, frame \in Frames :
         onMessage(ws, frame)
         => ( /\ frame.fmt # "object" => OnlyTo(outbox', ws, InvalidFormat)
              /\ (frame.fmt = "object" /\ frame.event \notin StatefulEvents)
                 => OnlyTo(outbox', ws, UnknownEvent)
              /\ ( /\ frame.event = "ATTENDANCE_MARKED"
                   /\ (~frame.hasData \/ frame.status \notin {"present", "absent"}) )
                 => OnlyTo(outbox', ws, InvalidFormat) )]_vars

\* C20: every mark of every session is "present" or "absent", and so is the
\* status of every mark-attendance echo that is delivered.
C20_MarksAreEnum ==
    /\ \A i \in DOMAIN heap : \A sid \in DOMAIN heap[i].attendance :
          heap[i].attendance[sid] \in {"present", "absent"}
    /\ \A e \in Delivered(outbox) :
          e.event = "ATTENDANCE_MARKED" => e.status \in {"present", "absent"}

\* C21: a request-summary of a teacher while a session is active delivers,
\* to every open client, present = the students marked "present", absent =
\* the students marked "absent" and total = the students that have a mark in
\* that session, whoever is enrolled, and changes nothing of the session.
C21_SummaryOverMarks ==
    [][( /\ last'.op = "onMessage" /\ last'.event = "TODAY_SUMMARY"
         /\ user[last'.ws].role = "teacher"
         /\ activeSession # NULL )
       => LET marks == heap[activeSession].attendance
              e == SummaryEnvelope(
                     Cardinality({sid \in DOMAIN marks : marks[sid] = "present"}),
                     Cardinality({sid \in DOMAIN marks : marks[sid] = "absent"}),
                     Cardinality(DOMAIN marks))
          IN  /\ \A c \in Conn :
                    outbox'[c] = IF c \in DOMAIN clients /\ readyState[c] = OPEN
                                 THEN <<e>> ELSE <<>>
              /\ outbox'[last'.ws] = <<e>>
              /\ UNCHANGED <<activeSession, heap>>]_vars
C21_Witness ==
    /\ last.op = "onMessage" /\ last.event = "TODAY_SUMMARY"
    /\ activeSession # NULL
    /\ heap[activeSession].classId = "c2"
    /\ enrollments["c2"] = {"s1", "s2"}
    /\ outbox["w1"] = <<SummaryEnvelope(1, 0, 1)>>
    /\ outbox["w2"] = outbox["w1"]

\* C22: the close of a socket and its close event change no pending finalize
\* and nothing of the session; an insert that resolves for a finalize whose
\* connection is no longer open still hands over its records, clears the
\* session and delivers DONE to the clients that are open, and to no other.
C22_CloseDoesNotAbort ==
    [][ /\ (last'.op \in {"socketClose", "onClose"})
           => UNCHANGED <<tasks, activeSession, heap, nDone>>
        /\ (last'.op = "insert.resolve" /\ readyState[last'.ws] # OPEN)
           => LET t == tasks[last'.task]
              IN  /\ t.pc = "insert"
                  /\ inserted' = Records(heap[t.sess].classId, t.finalAttendance)
                  /\ activeSession' = NULL
                  /\ outbox'[last'.ws] = <<>>
                  /\ DeliversTo(outbox', "DONE",
                        {c \in DOMAIN clients : readyState[c] = OPEN}) ]_vars
C22_Witness ==
    /\ last.op = "insert.resolve" /\ last.ws = "w1"
    /\ readyState["w1"] = CLOSED /\ "w1" \notin DOMAIN clients
    /\ inserted # {}
    /\ activeSession = NULL
    /\ outbox["w1"] = <<>>
    /\ outbox["w2"] = <<DoneEnvelope(1, 0, 1)>>

\* C23: the close event of a connection removes that connection from clients
\* and no other, sends nothing, and changes nothing when the connection is
\* not a key of clients, as on a second close event.
C23_UnregisterIdempotent ==
    [][(last'.op = "onClose")
       => ( /\ DOMAIN clients' = (DOMAIN clients) \ {last'.ws}
            /\ \A c \in DOMAIN clients' : clients'[c] = clients[c]
            /\ last'.ws \notin DOMAIN clients => clients' = clients
            /\ outbox' = NoOutbox )]_vars
C23_Witness ==
    /\ last.op = "onClose" /\ last.code = 0
    /\ user[last.ws] # NoUser
    /\ last.ws \notin DOMAIN clients
    /\ \E c \in Conn : c \in DOMAIN clients /\ clients[c].role = "teacher"

\* C24: the user of a connection, once set by its handshake, is the one its
\* token verified to and never changes; the entry the registry holds for the
\* connection is that user; and whether a message of the connection is
\* refused as "Forbidden" is decided by the role of that user.
HandshakeUser(c) ==
    CHOOSE u \in {jwtVerify(token) : token \in QueryToken[c]} : u # NoUser
C24_PrincipalImmutable ==
    [][ /\ \A c \in Conn :
             /\ user[c] # NoUser => user'[c] = user[c]
             /\ user'[c] # NoUser => user'[c] = HandshakeUser(c)
             /\ c \in DOMAIN clients' => clients'[c] = user'[c]
        /\ (last'.op = "onMessage" /\ last'.event \in StatefulEvents)
           => ( WrongRole(last'.event, HandshakeUser(last'.ws).role)
                <=> \E role \in {"teacher", "student"} :
                       outbox'[last'.ws] = <<Forbidden(role)>> ) ]_vars
C24_Witness ==
    /\ last.op = "onMessage" /\ last.event = "MY_ATTENDANCE" /\ last.ws = "w2"
    /\ nStart = 1 /\ activeSession = NULL
    /\ outbox["w2"] = <<NoActive>>
    /\ user["w2"] = [userId |-> "s1", role |-> "student"]
    /\ "w1" \in DOMAIN clients /\ clients["w1"] = [userId |-> "t1", role |-> "teacher"]

\* C25: at most one session exists: the active session and the sessions that
\* suspended finalizes hold are one and the same object.
C25_AtMostOneSession ==
    Cardinality(({activeSession} \cup {tasks[k].sess : k \in {j \in TaskIds : InFlight(j)}})
                \ {NULL}) <= 1

\* C26: a start request of the teacher of the class it names leaves a session
\* of that class; any other start request is refused and changes neither the
\* active session nor any session object; and only a granted start request
\* makes a session the active one.
OwnerRequest(token, classId) ==
    /\ jwtVerify(token).role = "teacher"
    /\ classId \in Classes
    /\ ClassTeacher[classId] = jwtVerify(token).userId
C26_StartByOwnerOnly ==
    [][ /\ \A req \in StartRequests :
             attendanceStart(req[1], req[2])
             => IF OwnerRequest(req[1], req[2])
                THEN /\ last'.code = 200
                     /\ activeSession' # NULL
                     /\ heap'[activeSession'].classId = req[2]
                ELSE /\ last'.code # 200
                     /\ UNCHANGED <<activeSession, heap, nStart>>
        /\ (activeSession' # activeSession /\ activeSession' # NULL)
           => (last'.op = "start" /\ last'.code = 200) ]_vars
C26_Witness ==
    /\ last.op = "start" /\ last.code = 403
    /\ activeSession # NULL
    /\ heap[activeSession].classId = "c1"
    /\ heap[activeSession].attendance # EmptyMap

\* C27: DONE is delivered only by the step in which the insert of a finalize
\* resolves, and after that step the session this finalize read is not the
\* active session: there is none.
C27_ClearedWhenDoneDelivered ==
    [][ /\ DoneFrames(outbox') # {} => last'.op = "insert.resolve"
        /\ (last'.op = "insert.resolve")
           => ( /\ activeSession' # tasks[last'.task].sess
                /\ activeSession' = NULL ) ]_vars
C27_Witness ==
    /\ last.op = "insert.resolve"
    /\ activeSession = NULL
    /\ outbox["w1"] = <<DoneEnvelope(0, 1, 1)>>
    /\ \E r \in inserted : r.classId = "c1" /\ r.studentId = "s1"

\* C28: the records of a session are written at most once and DONE is
\* broadcast at most once for it: the insert of a finalize never resolves for
\* a session whose records another finalize has already written.
C28_PersistedOnce ==
    [][ (last'.op = "insert.resolve") => ~tasks[last'.task].persisted ]_vars

\* C29: no accepted mark is lost: when the insert of a finalize resolves, the
\* status written for each student who has an echoed mark in the session is
\* the status of the last echoed mark of that student in that session.
C29_NoMarkLost ==
    [][ (last'.op = "insert.resolve")
        => LET t == tasks[last'.task]
           IN  \A sid \in DOMAIN echoed[t.sess] :
                   /\ sid \in DOMAIN t.finalAttendance
                   /\ t.finalAttendance[sid] = echoed[t.sess][sid] ]_vars

\* C30: the completion of a finalize destroys only the session it read: when
\* the insert resolves and the active session is another session, that
\* session is still the active one afterwards, with its classId and marks.
C30_DestroysOnlyItsSession ==
    [][ ( /\ last'.op = "insert.resolve"
          /\ activeSession # NULL
          /\ activeSession # tasks[last'.task].sess )
        => ( /\ activeSession' = activeSession
             /\ activeSession \in DOMAIN heap'
             /\ heap'[activeSession] = heap[activeSession] ) ]_vars

\* C31: every record a finalize writes belongs to the session it read: the
\* students it defaults are those enrolled in the class of that session, and
\* each record has the classId of that session and is either a mark of that
\* session or the "absent" of a student enrolled in that class, also when a
\* start request has made another session the active one meanwhile.
C31_RecordsOfOneSession ==
    [][\A k \in TaskIds :
         LET t == tasks[k]
             session == heap[t.sess]
         IN  /\ (t.pc = "findMany" /\ last'.op = "findMany.resolve" /\ last'.task = k)
                => \A sid \in (DOMAIN tasks'[k].finalAttendance)
                                 \ (DOMAIN session.attendance) :
                       sid \in enrollments[session.classId]
             /\ (t.pc = "insert" /\ last'.op = "insert.resolve" /\ last'.task = k)
                => \A r \in inserted' :
                       /\ r.classId = session.classId
                       /\ \/ r.studentId \in DOMAIN session.attendance
                          \/ /\ r.studentId \in enrollments[session.classId]
                             /\ r.status = "absent" ]_vars
C31_Witness ==
    /\ last.op = "findMany.resolve"
    /\ activeSession # NULL
    /\ LET t == tasks[last.task]
       IN  /\ t.sess # activeSession
           /\ heap[t.sess].classId = "c1"
           /\ heap[activeSession].classId = "c2"
           /\ t.finalAttendance = [sid \in {"s1"} |-> "absent"]

\* C32: when the database answers every query, every finalize that passed
\* its checks comes to an end: either one of its two queries failed, or its
\* insert succeeded, and then there is no active session and DONE went to
\* every registered open connection.  No finalize stays suspended for ever.
Completed(k) ==
    /\ tasks[k].pc = "idle"
    /\ last.task = k
    /\ \/ last.op \in {"findMany.reject", "insert.reject"}
       \/ /\ last.op = "insert.resolve"
          /\ activeSession = NULL
          /\ DeliversTo(outbox, "DONE",
                        {c \in DOMAIN clients : readyState[c] = OPEN})
C32_FinalizeCompletes ==
    \A k \in TaskIds : (tasks[k].pc # "idle") ~> Completed(k)
C32_Witness ==
    /\ nDone = 2
    /\ \A k \in TaskIds : tasks[k].pc = "idle"
    /\ Completed(2)
    /\ last.op = "insert.resolve"
    /\ outbox["w1"] # <<>>

\* C33: when the roster read of a finalize fails, an error goes to the
\* connection that sent the finalize and to no other, nothing is inserted,
\* and the session that this finalize read is the active session afterwards,
\* with the classId and the marks it had, no default added.
C33_RosterFailureKeepsSession ==
    [][\A k \in TaskIds :
         (tasks[k].pc = "findMany" /\ last'.op = "findMany.reject" /\ last'.task = k)
         => ( /\ NoBroadcast(outbox', tasks[k].ws)
              /\ \A i \in 1..Len(outbox'[tasks[k].ws]) :
                    outbox'[tasks[k].ws][i].event = "ERROR"
              /\ inserted' = {}
              /\ activeSession' = tasks[k].sess
              /\ tasks[k].sess \in DOMAIN heap'
              /\ heap'[tasks[k].sess] = heap[tasks[k].sess] )]_vars

\* C34: the answer to a student's request-self-status is determined by the
\* entry of that student's own id in the marks of the active session, and by
\* nothing else (not the other students' marks, the roster or the
\* connections): it is the one envelope made of that entry, which carries no
\* student id, sent to the requester alone.
OwnMark(att, id) == IF id \in DOMAIN att THEN att[id] ELSE Undefined
AnswerOf(own) ==
    MyAttendanceEnvelope(IF own = Undefined THEN "not yet updated" ELSE own)
C34_SelfStatusOfOwnMarkOnly ==
    [][ ( /\ last'.op = "onMessage" /\ last'.event = "MY_ATTENDANCE"
          /\ user[last'.ws].role = "student"
          /\ activeSession # NULL )
        => LET ws == last'.ws
               e == AnswerOf(OwnMark(heap[activeSession].attendance,
                                     user[ws].userId))
           IN  /\ OnlyTo(outbox', ws, e)
               /\ e.studentId = "-"
               /\ e.status \in {"not yet updated"}
                     \cup {heap[activeSession].attendance[sid] :
                              sid \in (DOMAIN heap[activeSession].attendance)
                                       \cap {user[ws].userId}} ]_vars
C34_Witness ==
    /\ last.op = "onMessage" /\ last.event = "MY_ATTENDANCE" /\ last.ws = "w2"
    /\ activeSession # NULL
    /\ heap[activeSession].classId = "c1"
    /\ DOMAIN heap[activeSession].attendance = {"s2"}
    /\ "w1" \in DOMAIN clients /\ readyState["w1"] = OPEN
    /\ outbox["w2"] = <<MyAttendanceEnvelope("not yet updated")>>
    /\ outbox["w1"] = <<>>

\* C35: an echo of a mark is delivered only by the step that handles a
\* teacher's mark-attendance while a session is active, and after that step
\* the marks of the active session hold the echoed status for the echoed
\* student; a mark-attendance that is answered with an error delivers no echo
\* and changes no session.
MarkedFrames(ob) == {e \in Delivered(ob) : e.event = "ATTENDANCE_MARKED"}
C35_EchoOnlyOfAppliedMark ==
    [][ /\ \A e \in MarkedFrames(outbox') :
             /\ last'.op = "onMessage" /\ last'.event = "ATTENDANCE_MARKED"
             /\ user[last'.ws].role = "teacher"
             /\ activeSession # NULL /\ activeSession' = activeSession
             /\ e.studentId \in DOMAIN heap'[activeSession].attendance
             /\ heap'[activeSession].attendance[e.studentId] = e.status
        /\ ( /\ last'.op = "onMessage" /\ last'.event = "ATTENDANCE_MARKED"
             /\ \E i \in DOMAIN outbox'[last'.ws] :
                   outbox'[last'.ws][i].event = "ERROR" )
           => (MarkedFrames(outbox') = {} /\ UNCHANGED <<activeSession, heap>>) ]_vars
C35_Witness ==
    /\ last.op = "onMessage" /\ last.event = "ATTENDANCE_MARKED" /\ last.ws = "w1"
    /\ activeSession # NULL
    /\ outbox["w2"] = <<MarkedEnvelope("s2", "absent")>>
    /\ outbox["w1"] = outbox["w2"]
    /\ DOMAIN heap[activeSession].attendance = {"s1", "s2"}
    /\ heap[activeSession].attendance["s2"] = "absent"
    /\ heap[activeSession].attendance["s1"] = "present"

====
